---- MODULE Spec2Model ----
(***************************************************************************)
(* A model of mail-reply-smith's EmailPoller (src/src/email_poller.py):    *)
(* the driving context calling start()/stop(), the worker thread running   *)
(* _poll_loop, and one fetch_emails cycle against the IMAP store and the   *)
(* SMTP relay.  The store and the relay are collaborators: each call to    *)
(* them either returns or raises, chosen nondeterministically.             *)
(***************************************************************************)
EXTENDS Integers, Sequences, FiniteSets, TLC

\* ---------------------------------------------------------------- bounds
MaxMsgs == 3
MaxKeep == 2
MaxInterval == 2
MaxRules == 2

\* time.sleep(60) in _poll_loop's exception handler
Cooldown == 60

\* ------------------------------------------------------- configuration
\* Sender addresses (what parseaddr returns), as sequences of characters.
Boss == <<"b", "@", "c">>
Other == <<"x", "@", "c">>
Senders == {Boss, Other}

\* A filter rule of config['filters'].  has_contains says whether the rule
\* has the key 'sender_email_contains'.
RBoss == [has_contains |-> TRUE, sender_email_contains |-> << <<"b">> >>,
          action |-> "forward", forward_to |-> TRUE]
RAll == [has_contains |-> TRUE, sender_email_contains |-> << <<"q">>, <<"@", "c">> >>,
         action |-> "forward", forward_to |-> TRUE]
RBossNoTo == [has_contains |-> TRUE, sender_email_contains |-> << <<"b", "@">> >>,
              action |-> "forward", forward_to |-> FALSE]
RBossReply == [has_contains |-> TRUE, sender_email_contains |-> << <<"b">> >>,
               action |-> "reply", forward_to |-> TRUE]
RUnknown == [has_contains |-> FALSE, sender_email_contains |-> << >>,
             action |-> "forward", forward_to |-> TRUE]
RuleSet == {RBoss, RAll, RBossNoTo, RBossReply, RUnknown}

SeqsUpTo(S, n) == UNION {[1..m -> S] : m \in 0..n}

\* The rule lists of the scheduler specification.
ConfigFilters ==
    { << >>, <<RUnknown, RBoss>>, <<RBossNoTo>>, <<RBossReply, RAll>> }

Transports == {"imap", "pop3"}

VARIABLES
    transport,            \* config['pull_email']['transport']
    filters,              \* config['filters']
    keep_unseen_count,    \* config['pull_email']['keep_unseen_count']
    fetch_interval,       \* self.fetch_interval
    inbox,                \* the store's messages: id -> sender address
    seen,                 \* the store's \Seen flag per message id
    running,              \* self.running
    alive,                \* number of live worker threads
    dpc,                  \* the driving context: "idle", or "join" inside stop()
    lastCall,             \* the last call the driving context returned from
    wpc,                  \* position of the thread self.thread refers to
    session,              \* this cycle's IMAP connection: "none", "open", "closed"
    emails,               \* fetch_emails' local list (message ids, store order)
    idx,                  \* position of the for loop over emails
    forward_acked_count,
    force_acked_count,
    sleepLeft,            \* iterations left of the for loop over range(fetch_interval)
    slept,                \* time units slept since the last cycle ended
    connFailed,           \* this cycle's fetch_unseen_emails got an exception
    fetchErr,             \* the id whose mail.fetch raised it, 0 when none did
    acted,                \* this cycle called the relay or changed a seen flag
    log,                  \* per message id, what this cycle did with it
    io                    \* the collaborators the last step called: "store", "relay"

cfgVars == <<transport, filters, keep_unseen_count, fetch_interval, inbox>>
drvVars == <<running, alive, dpc, lastCall>>
locVars == <<emails, idx, forward_acked_count, force_acked_count, log>>
cycVars == <<session, connFailed, fetchErr, acted, emails, idx, forward_acked_count,
             force_acked_count, log>>
vars == <<transport, filters, keep_unseen_count, fetch_interval, inbox, seen,
          running, alive, dpc, lastCall, wpc, session, emails, idx,
          forward_acked_count, force_acked_count, sleepLeft, slept,
          connFailed, fetchErr, acted, log, io>>

Ids == 1..Len(inbox)

NoLog == [rules |-> {}, send |-> "none", ack |-> "none", forced |-> FALSE,
          done |-> FALSE]
EmptyLog == [i \in Ids |-> NoLog]

\* ------------------------------------------------------------ RuleMatcher
\* Python's `condition in original_sender_email` on strings.
IsInfix(c, s) ==
    \E i \in 0..(Len(s) - Len(c)) : SubSeq(s, i + 1, i + Len(c)) = c

\* _match_rule
match_rule(msg, rule) ==
    /\ rule.has_contains
    /\ \E j \in 1..Len(rule.sender_email_contains) :
          IsInfix(rule.sender_email_contains[j], msg)

\* -------------------------------------------------------- _execute_action
\* Whether _execute_action gets as far as calling forward_email.
ActionForwards(rule) == rule.action = "forward" /\ rule.forward_to

\* forward_email's outcomes: "sent", "send_failed" (the SMTP block raised,
\* caught inside forward_email), "compose_failed" (raised before the SMTP
\* block, propagates to _execute_action).
ForwardOutcomes == {"sent", "send_failed", "compose_failed"}

\* Whether forward_email returns normally, so that ack_email is called next.
ForwardReturns(fwd) == fwd \in {"sent", "send_failed"}

\* ---------------------------------------------------- AcknowledgmentPolicy
\* A count that forgets the forwarded messages.
remaining_emails_IgnoresForwarded(total, fwd, forced) == total - forced

\* `remaining_emails = len(emails) - (forward_acked_count + force_acked_count)`
remaining_emails(total, fwd, forced) == total - (fwd + forced)

\* A variant of the comparison that is off by one.
ShouldForceAck_OffByOne(remaining, keep) == remaining > keep + 1

\* `if remaining_emails > keep_unseen_count:`
ShouldForceAck(remaining, keep) == remaining > keep

\* ----------------------------------------------------------------- Init
InitCommon ==
    /\ keep_unseen_count \in 0..MaxKeep
    /\ fetch_interval \in 1..MaxInterval
    /\ seen = [i \in Ids |-> FALSE]
    /\ running = FALSE
    /\ alive = 0
    /\ dpc = "idle"
    /\ lastCall = "none"
    /\ wpc = "none"
    /\ session = "none"
    /\ emails = << >>
    /\ idx = 1
    /\ forward_acked_count = 0
    /\ force_acked_count = 0
    /\ sleepLeft = 0
    /\ slept = 0
    /\ connFailed = FALSE
    /\ fetchErr = 0
    /\ acted = FALSE
    /\ log = EmptyLog
    /\ io = {}

Init ==
    /\ transport \in Transports
    /\ filters \in ConfigFilters
    /\ inbox \in SeqsUpTo(Senders, MaxMsgs)
    /\ InitCommon

\* The rule lists in full, over a mailbox of at most one message.
InitRules ==
    /\ transport \in Transports
    /\ filters \in SeqsUpTo(RuleSet, MaxRules)
    /\ inbox \in SeqsUpTo(Senders, 1)
    /\ InitCommon

\* ------------------------------------------------------ driving context
\* A stop() that does not wait for the worker.
ThreadIsAlive_NoJoin == FALSE

\* A stop() that joins without looking at the thread.
ThreadIsAlive_Unchecked == TRUE

\* self.thread and self.thread.is_alive()
ThreadIsAlive == wpc \notin {"none", "exited"}

\* A start() without its guard.
AlreadyRunning_Never == FALSE

\* start()'s `if self.running:`
AlreadyRunning == running

\* start()
Start ==
    /\ dpc = "idle"
    /\ lastCall' = "start"
    /\ io' = {}
    /\ IF AlreadyRunning
       THEN UNCHANGED <<running, alive, wpc, sleepLeft, slept, cycVars>>
       ELSE /\ running' = TRUE
            /\ alive' = alive + 1
            /\ wpc' = "loop"
            /\ session' = "none"
            /\ emails' = << >>
            /\ idx' = 1
            /\ forward_acked_count' = 0
            /\ force_acked_count' = 0
            /\ sleepLeft' = 0
            /\ slept' = 0
            /\ connFailed' = FALSE
            /\ fetchErr' = 0
            /\ acted' = FALSE
            /\ log' = EmptyLog
    /\ UNCHANGED <<cfgVars, seen, dpc>>

\* stop(): self.running = False, then join when the thread is alive
Stop ==
    /\ dpc = "idle"
    /\ running' = FALSE
    /\ io' = {}
    /\ IF ThreadIsAlive
       THEN dpc' = "join" /\ UNCHANGED lastCall
       ELSE dpc' = "idle" /\ lastCall' = "stop"
    /\ UNCHANGED <<cfgVars, seen, alive, wpc, sleepLeft, slept, cycVars>>

\* self.thread.join() returns
JoinReturn ==
    /\ dpc = "join"
    /\ wpc = "exited"
    /\ dpc' = "idle"
    /\ lastCall' = "stop"
    /\ io' = {}
    /\ UNCHANGED <<cfgVars, seen, running, alive, wpc, sleepLeft, slept, cycVars>>

\* ------------------------------------------------------------ _poll_loop
\* A loop that never looks at the flag.
LoopRuns_Always == TRUE

\* `while self.running:`
LoopRuns == running

\* `while self.running:` then the entry of fetch_emails
LoopCheck ==
    /\ wpc = "loop"
    /\ io' = {}
    /\ IF LoopRuns
       THEN /\ wpc' = "cycle"
            /\ session' = "none"
            /\ emails' = << >>
            /\ idx' = 1
            /\ forward_acked_count' = 0
            /\ force_acked_count' = 0
            /\ connFailed' = FALSE
            /\ fetchErr' = 0
            /\ acted' = FALSE
            /\ log' = EmptyLog
            /\ slept' = 0
            /\ UNCHANGED alive
       ELSE /\ wpc' = "exited"
            /\ alive' = alive - 1
            /\ UNCHANGED <<cycVars, slept>>
    /\ UNCHANGED <<cfgVars, seen, running, dpc, lastCall, sleepLeft>>

\* fetch_emails is left: its locals are gone
DropLocals ==
    /\ emails' = << >>
    /\ idx' = 1
    /\ forward_acked_count' = 0
    /\ force_acked_count' = 0
    /\ log' = EmptyLog

\* fetch_emails returned normally: the for loop over range(fetch_interval)
EndCycleNormally ==
    /\ wpc' = "sleep"
    /\ sleepLeft' = fetch_interval
    /\ slept' = 0
    /\ DropLocals

\* An except branch that retries at once.
EndCycleRaising_NoCooldown ==
    /\ wpc' = "loop"
    /\ sleepLeft' = 0
    /\ slept' = 0
    /\ DropLocals

\* fetch_emails raised: the except branch, time.sleep(60)
EndCycleRaising ==
    /\ wpc' = "cooldown"
    /\ sleepLeft' = 0
    /\ slept' = 0
    /\ DropLocals

\* An unsupported transport that raises.
UnsupportedTransport_Raises ==
    /\ wpc = "cycle"
    /\ transport # "imap"
    /\ EndCycleRaising
    /\ io' = {}
    /\ UNCHANGED <<cfgVars, seen, drvVars, session, connFailed, fetchErr, acted>>

\* fetch_emails with a transport other than imap
UnsupportedTransport ==
    /\ wpc = "cycle"
    /\ transport # "imap"
    /\ EndCycleNormally
    /\ io' = {}
    /\ UNCHANGED <<cfgVars, seen, drvVars, session, connFailed, fetchErr, acted>>

\* --------------------------------------------------- fetch_unseen_emails
IdSeq == [i \in Ids |-> i]

IsUnseen(i) == ~seen[i]

\* A search for every message instead of the unseen ones.
UnseenIds_All == IdSeq

\* mail.search(None, 'UNSEEN'): the unseen ids in store order
UnseenIds == SelectSeq(IdSeq, IsUnseen)

\* A failed fetch treated as a cycle error.
FailedFetchEnds_Cooldown == EndCycleRaising

\* fetch_emails after fetch_unseen_emails returned (None, []):
\* `if not mail: ...; return`
FailedFetchEnds == EndCycleNormally

\* An exception handler that hands back the connection and the unseen
\* messages, so that processing goes on.
FetchRaised_KeepsGoing(opened) ==
    /\ session' = "open"
    /\ connFailed' = TRUE
    /\ emails' = UnseenIds
    /\ wpc' = IF UnseenIds = << >> THEN "close" ELSE "process"
    /\ UNCHANGED <<idx, forward_acked_count, force_acked_count, log, sleepLeft, slept>>

\* fetch_unseen_emails' `except Exception: return None, []`; opened says
\* whether IMAP4_SSL(host, port) had returned before the exception.  The
\* handler does not close the connection.
FetchRaised(opened) ==
    /\ session' = IF opened THEN "open" ELSE "none"
    /\ connFailed' = TRUE
    /\ FailedFetchEnds

\* fetch_unseen_emails returned (mail, email_list): `if not emails: return`
\* inside the try, else the for loop over emails
FetchReturned(list) ==
    /\ session' = "open"
    /\ connFailed' = FALSE
    /\ emails' = list
    /\ wpc' = IF list = << >> THEN "close" ELSE "process"
    /\ UNCHANGED <<idx, forward_acked_count, force_acked_count, log, sleepLeft, slept>>

\* fetch_unseen_emails, called from fetch_emails
FetchUnseen ==
    /\ wpc = "cycle"
    /\ transport = "imap"
    /\ io' = {"store"}
    /\ \/ \E opened \in BOOLEAN : FetchRaised(opened) /\ fetchErr' = 0
       \/ \E j \in 1..Len(UnseenIds) :   \* mail.fetch raises for this id
             FetchRaised(TRUE) /\ fetchErr' = UnseenIds[j]
       \/ FetchReturned(<< >>) /\ fetchErr' = 0      \* search result is not 'OK'
       \/ \E ok \in SUBSET {UnseenIds[j] : j \in 1..Len(UnseenIds)} :
             LET IsFetched(i) == i \in ok
             IN  FetchReturned(SelectSeq(UnseenIds, IsFetched)) /\ fetchErr' = 0
    /\ UNCHANGED <<cfgVars, seen, drvVars, acted>>

\* ------------------------------------------------- fetch_emails' for loop
\* The loop over filters without its break.
RECURSIVE ExecutedRules_NoBreak(_, _, _)
ExecutedRules_NoBreak(msg, rules, i) ==
    IF i > Len(rules) THEN {}
    ELSE IF match_rule(msg, rules[i])
         THEN {i} \cup ExecutedRules_NoBreak(msg, rules, i + 1)
    ELSE ExecutedRules_NoBreak(msg, rules, i + 1)

\* The rules whose action the loop over filters executes for msg, from
\* position i: the loop breaks at the first match.
RECURSIVE ExecutedRules(_, _, _)
ExecutedRules(msg, rules, i) ==
    IF i > Len(rules) THEN {}
    ELSE IF match_rule(msg, rules[i]) THEN {i}
    ELSE ExecutedRules(msg, rules, i + 1)

SetMin(S) == CHOOSE x \in S : \A y \in S : x <= y

\* A flag that is never set.
is_processed_NeverSet(rs) == FALSE

\* fetch_emails' flag is_processed after the loop over filters: set when
\* a rule matched, whatever its action did.
is_processed(rs) == rs # {}

\* A loop that a failed send or a failed markSeen leaves.
NextMessage_AbortOnFailure ==
    IF log'[emails[idx]].send = "fail" \/ log'[emails[idx]].ack = "fail"
    THEN wpc' = "close" /\ UNCHANGED idx
    ELSE /\ idx' = idx + 1
         /\ wpc' = IF idx + 1 > Len(emails) THEN "close" ELSE "process"

\* How the loop over emails goes on after one message: the exceptions of
\* the send and of markSeen are caught where they are raised.
NextMessage ==
    /\ idx' = idx + 1
    /\ wpc' = IF idx + 1 > Len(emails) THEN "close" ELSE "process"

\* One iteration of `for num, msg in emails:` -- rule matching, then
\* _execute_action or the force-acknowledge decision.
ProcessMessage ==
    /\ wpc = "process"
    /\ idx <= Len(emails)
    /\ LET id == emails[idx]
           rs == ExecutedRules(inbox[id], filters, 1)
       IN  IF is_processed(rs)
           THEN LET rule == filters[SetMin(rs)]
                IN  /\ forward_acked_count' = forward_acked_count + Cardinality(rs)
                    /\ UNCHANGED force_acked_count
                    /\ IF ActionForwards(rule)
                       THEN \E fwd \in ForwardOutcomes, ackOk \in BOOLEAN :
                              LET acked == ForwardReturns(fwd)
                              IN  /\ (~acked => ackOk)
                                  /\ log' = [log EXCEPT ![id] =
                                        [rules |-> rs,
                                         send |-> CASE fwd = "sent" -> "ok"
                                                    [] fwd = "send_failed" -> "fail"
                                                    [] OTHER -> "none",
                                         ack |-> IF ~acked THEN "none"
                                                 ELSE IF ackOk THEN "ok" ELSE "fail",
                                         forced |-> FALSE, done |-> TRUE]]
                                  /\ seen' = IF acked /\ ackOk
                                             THEN [seen EXCEPT ![id] = TRUE]
                                             ELSE seen
                                  /\ io' = (IF fwd = "compose_failed" THEN {} ELSE {"relay"})
                                           \cup (IF acked THEN {"store"} ELSE {})
                       ELSE /\ log' = [log EXCEPT ![id] =
                                  [rules |-> rs, send |-> "none", ack |-> "none",
                                   forced |-> FALSE, done |-> TRUE]]
                            /\ io' = {}
                            /\ UNCHANGED seen
           ELSE /\ UNCHANGED forward_acked_count
                /\ IF ShouldForceAck(remaining_emails(Len(emails), forward_acked_count,
                                                      force_acked_count),
                                     keep_unseen_count)
                   THEN \E ackOk \in BOOLEAN :
                          /\ force_acked_count' = force_acked_count + 1
                          /\ log' = [log EXCEPT ![id] =
                                [rules |-> {}, send |-> "none",
                                 ack |-> IF ackOk THEN "ok" ELSE "fail",
                                 forced |-> TRUE, done |-> TRUE]]
                          /\ seen' = IF ackOk THEN [seen EXCEPT ![id] = TRUE] ELSE seen
                          /\ io' = {"store"}
                   ELSE /\ UNCHANGED <<force_acked_count, seen>>
                        /\ log' = [log EXCEPT ![id] =
                              [rules |-> {}, send |-> "none", ack |-> "none",
                               forced |-> FALSE, done |-> TRUE]]
                        /\ io' = {}
    /\ acted' = (acted \/ "relay" \in io' \/ seen' # seen)
    /\ NextMessage
    /\ UNCHANGED <<cfgVars, drvVars, session, emails, connFailed, fetchErr,
                   sleepLeft, slept>>

\* fetch_emails' finally: mail.close(); mail.logout().  When close() raises,
\* logout() is not reached and the exception leaves fetch_emails.
CloseSession ==
    /\ wpc = "close"
    /\ io' = {"store"}
    /\ \/ session' = "closed" /\ EndCycleNormally
       \/ UNCHANGED session /\ EndCycleRaising
    /\ UNCHANGED <<cfgVars, seen, drvVars, connFailed, fetchErr, acted>>

\* ----------------------------------------------------- _poll_loop sleeps
\* A sleep loop that does not look at the flag.
StopObserved_Never == FALSE

\* `if not self.running: break`
StopObserved == ~running

\* The head of `for _ in range(self.fetch_interval):` and its
\* `if not self.running: break`
SleepCheck ==
    /\ wpc = "sleep"
    /\ io' = {}
    /\ IF sleepLeft = 0 \/ StopObserved
       THEN wpc' = "loop" /\ UNCHANGED sleepLeft
       ELSE wpc' = "sleeping" /\ sleepLeft' = sleepLeft - 1
    /\ UNCHANGED <<cfgVars, seen, drvVars, cycVars, slept>>

\* time.sleep(1) returns
SleepReturn ==
    /\ wpc = "sleeping"
    /\ wpc' = "sleep"
    /\ slept' = slept + 1
    /\ io' = {}
    /\ UNCHANGED <<cfgVars, seen, drvVars, cycVars, sleepLeft>>

\* time.sleep(60) returns
CooldownReturn ==
    /\ wpc = "cooldown"
    /\ wpc' = "loop"
    /\ slept' = Cooldown
    /\ io' = {}
    /\ UNCHANGED <<cfgVars, seen, drvVars, cycVars, sleepLeft>>

Next ==
    \/ Start
    \/ Stop
    \/ JoinReturn
    \/ LoopCheck
    \/ UnsupportedTransport
    \/ FetchUnseen
    \/ ProcessMessage
    \/ CloseSession
    \/ SleepCheck
    \/ SleepReturn
    \/ CooldownReturn

Spec == Init /\ [][Next]_vars

SpecRules == InitRules /\ [][Next]_vars

\* The worker thread is scheduled fairly and every store call, relay call
\* and sleep returns; the driving context need not call anything.
WorkerFairness ==
    /\ WF_vars(LoopCheck)
    /\ WF_vars(UnsupportedTransport)
    /\ WF_vars(FetchUnseen)
    /\ WF_vars(ProcessMessage)
    /\ WF_vars(CloseSession)
    /\ WF_vars(SleepCheck)
    /\ WF_vars(SleepReturn)
    /\ WF_vars(CooldownReturn)
    /\ WF_vars(JoinReturn)

\* A mailbox of at most two messages.
InitFair ==
    /\ transport \in Transports
    /\ filters \in ConfigFilters
    /\ inbox \in SeqsUpTo(Senders, 2)
    /\ InitCommon

SpecFair == InitFair /\ [][Next]_vars /\ WorkerFairness

\* ================================================================ claims
Max(a, b) == IF a >= b THEN a ELSE b

\* Positions of the cycle's messages in emails.
Pos == 1..Len(emails)

\* The for loop over emails is over: fetch_emails' finally is next.
LoopOver == wpc = "close"

\* The worker is between two cycles, or gone.
CycleOver == wpc \in {"sleep", "sleeping", "cooldown", "loop", "exited"}

\* stop() has returned and start() has not been called since.
StopReturned == dpc = "idle" /\ lastCall = "stop"

\* The sender address contains the substring c, stated by decomposition.
Contains(s, c) ==
    \E p \in 0..Len(s) : \E q \in p..Len(s) :
        /\ q - p = Len(c)
        /\ \A k \in 1..Len(c) : s[p + k] = c[k]

\* The rule's predicate holds of the sender address; a rule without a
\* known predicate kind holds of none.
PredicateHolds(msg, rule) ==
    /\ rule.has_contains
    /\ \E j \in DOMAIN rule.sender_email_contains :
          Contains(msg, rule.sender_email_contains[j])

\* The first rule in list order whose predicate holds, as a set: empty
\* when there is none.
FirstMatching(msg, rules) ==
    {r \in DOMAIN rules :
        /\ PredicateHolds(msg, rules[r])
        /\ \A q \in 1..(r - 1) : ~PredicateHolds(msg, rules[q])}

Unmatched == {j \in Pos : FirstMatching(inbox[emails[j]], filters) = {}}

StillUnseen == {j \in Pos : ~seen[emails[j]]}

\* Matched and forwarded: the relay accepted the message.
Forwarded == {j \in Pos : log[emails[j]].send = "ok"}

\* C1: a message whose relay send failed is not marked seen: it is still
\* unseen (as it was when the cycle fetched it).
C1_SendFailureLeavesUnseen ==
    \A i \in Ids : log[i].send = "fail" => ~seen[i]

\* C2: once stop() has returned the worker has exited, and no step calls
\* the store or the relay.
C2_NoActivityAfterStop ==
    StopReturned => (alive = 0 /\ io = {})

\* C2 witness: stop() returned after joining a worker that it interrupted at
\* the end of a cycle with an open and closed store session.
C2_Witness ==
    StopReturned /\ wpc = "exited" /\ session = "closed" /\ slept = 0

AllMarksTookEffect ==
    \A j \in Pos :
        (log[emails[j]].rules # {} \/ log[emails[j]].forced)
            => log[emails[j]].ack = "ok"

C4_ExactExcess ==
    LoopOver =>
        /\ force_acked_count = Max(0, Cardinality(Unmatched) - keep_unseen_count)
        /\ Cardinality({j \in Pos : log[emails[j]].forced}) = force_acked_count

\* C5: a failed send or a failed markSeen does not end the loop: when the
\* loop is over, every message of the cycle went through rule matching and
\* its action or the acknowledgment policy.
C5_FailureDoesNotAbort ==
    LoopOver => \A j \in Pos : log[emails[j]].done

\* C5 witness: a message's send or markSeen failed and a later message was
\* acknowledged.
C5_Witness ==
    /\ LoopOver
    /\ \E j \in Pos : \E m \in Pos :
          /\ j < m
          /\ (log[emails[j]].send = "fail" \/ log[emails[j]].ack = "fail")
          /\ log[emails[m]].ack = "ok"

\* The worker is about to start the cycle after one whose fetch failed.
NextCycleAfterFailedFetch == wpc = "loop" /\ running /\ connFailed

C7_FailedFetchProcessesNothing ==
    connFailed => (~acted /\ \A i \in Ids : ~log[i].done)

\* C7 witness: the connection failed after it was opened, with an unseen
\* message in the store that a forward rule matches.
C7_Witness ==
    /\ connFailed
    /\ session = "open"
    /\ CycleOver
    /\ \E i \in Ids :
          /\ ~seen[i]
          /\ \E r \in FirstMatching(inbox[i], filters) : ActionForwards(filters[r])

\* C8: when a cycle is over, the store session it opened is closed.
C8_SessionReleased ==
    CycleOver => session # "open"

\* C9: at most one worker is alive, and start() on a running scheduler
\* spawns no worker and changes no state of the scheduler or the worker.
C9_SingleWorker ==
    [][ /\ alive' <= 1
        /\ (Start /\ running) =>
              UNCHANGED <<running, alive, wpc, seen, sleepLeft, slept, cycVars>>
      ]_vars

\* C9 witness: start() was called again while a cycle was in progress: the
\* worker's last step called the relay, and the step after it called nothing
\* and left the worker where it was.
C9_Witness ==
    /\ running
    /\ alive = 1
    /\ wpc = "process"
    /\ idx > 1
    /\ log[emails[idx - 1]].send # "none"
    /\ lastCall = "start"
    /\ io = {}

\* C10: the rules whose action ran for a processed message are exactly the
\* first rule in list order whose predicate holds of the sender address --
\* none when no predicate holds, the list is empty or the predicate kind is
\* unknown -- and the relay and markSeen-by-rule are used only for it.
C10_FirstMatchWins ==
    \A i \in Ids :
        log[i].done =>
            /\ log[i].rules = FirstMatching(inbox[i], filters)
            /\ (log[i].rules = {} => log[i].send = "none")
            /\ (log[i].send # "none" =>
                  \E r \in log[i].rules : ActionForwards(filters[r]))

\* C10 witness: two rules hold of the sender, after a rule of unknown
\* predicate kind or one that does not hold; the first one acted.
C10_Witness ==
    \E i \in Ids :
        /\ log[i].done
        /\ log[i].send = "ok"
        /\ \E r \in log[i].rules : \E q \in DOMAIN filters :
              /\ q > r
              /\ PredicateHolds(inbox[i], filters[q])

\* C11: no processed message is both acted on by a rule and
\* force-acknowledged: a message that a rule matches is not passed to the
\* acknowledgment policy, whatever its action did, and a message that no
\* rule matches is not sent through the relay.
C11_ActedOrPolicy ==
    \A i \in Ids :
        log[i].done =>
            /\ ~(log[i].rules # {} /\ log[i].forced)
            /\ (FirstMatching(inbox[i], filters) # {} => ~log[i].forced)
            /\ (FirstMatching(inbox[i], filters) = {} => log[i].send = "none")

\* C11 witness: a matched message whose action did not mark it was left
\* alone in a cycle that force-acknowledged an unmatched message after it.
C11_Witness ==
    \E j \in Pos : \E m \in Pos :
        /\ j < m
        /\ log[emails[j]].rules # {}
        /\ log[emails[j]].ack # "ok"
        /\ ~log[emails[j]].forced
        /\ log[emails[m]].forced

\* C12: a cycle that raises does not stop the scheduler: the worker goes to
\* the cooldown, stays alive, leaves it only after the 60 units and for the
\* loop head, and while running stays true it attempts another cycle.
C12_ErrorThenCooldownThenRetry ==
    /\ [][ /\ (wpc = "close" /\ wpc' # "close" /\ session' # "closed")
                => (wpc' = "cooldown" /\ alive' = alive)
           /\ (wpc = "cooldown" /\ wpc' # "cooldown")
                => (wpc' = "loop" /\ slept' = Cooldown /\ alive' = alive /\ alive = 1)
         ]_vars
    /\ (wpc = "cooldown") ~> (wpc = "cycle" \/ ~running)

\* C12 witness: a cycle was attempted after the cooldown.
C12_Witness ==
    wpc = "loop" /\ slept = Cooldown /\ running /\ session = "open" /\ ~connFailed

\* The interval sleep steps done or begun, and those left, add up to the
\* configured interval.
IntervalSleep ==
    /\ wpc = "sleep" => slept + sleepLeft = fetch_interval
    /\ wpc = "sleeping" => slept + sleepLeft + 1 = fetch_interval

\* C13: with a transport other than imap a cycle opens no store session,
\* calls neither store nor relay, changes no seen flag and ends normally:
\* the worker is never in the cooldown and sleeps the fetch interval.
C13_UnsupportedTransportIsNoOp ==
    transport # "imap" =>
        /\ session = "none"
        /\ ~acted
        /\ io = {}
        /\ \A i \in Ids : ~seen[i] /\ ~log[i].done
        /\ wpc \notin {"process", "close", "cooldown"}
        /\ IntervalSleep
        /\ (wpc = "loop" /\ running /\ lastCall = "start" /\ slept # 0)
              => slept = fetch_interval

\* C13 witness: such a cycle is over and its interval sleep is done, with
\* messages in the store.
C13_Witness ==
    /\ transport # "imap"
    /\ wpc = "loop"
    /\ running
    /\ slept = fetch_interval
    /\ inbox # << >>

\* No worker thread was started, or the one started has left _poll_loop.
WorkerGone == wpc \in {"none", "exited"}

\* The scheduler is Stopped: never started, or stop() has returned.
Stopped == dpc = "idle" /\ lastCall \in {"none", "stop"}

\* C14: stop() on a scheduler that was never started, or again after a
\* stop() has returned, returns at once and leaves the scheduler Stopped
\* as it was (running false, no live worker); a start() from Stopped makes
\* it Running with exactly one new worker.
C14_StopIdempotent ==
    [][ /\ Stopped => (~running /\ alive = 0 /\ WorkerGone)
        /\ (Stopped /\ Stop) =>
              /\ dpc' = "idle"
              /\ lastCall' = "stop"
              /\ UNCHANGED <<running, alive, wpc, seen, sleepLeft, slept, cycVars>>
        /\ (Stopped /\ Start) =>
              (running' /\ alive' = 1 /\ wpc' = "loop" /\ dpc' = "idle")
      ]_vars

\* C14 witness: stop() returned on a scheduler that was never started.
C14_Witness ==
    StopReturned /\ wpc = "none" /\ ~running /\ alive = 0

\* C15: once running is false during the interval sleep, the worker begins
\* no further sleep step -- at most the one in progress completes -- starts
\* no cycle, and exits the loop.
C15_PromptExitFromSleep ==
    /\ [][ /\ (~running /\ wpc = "sleeping") => wpc' \in {"sleeping", "sleep"}
           /\ (~running /\ wpc = "sleep") => (wpc' \in {"sleep", "loop"} /\ slept' = slept)
           /\ (~running /\ wpc = "loop") => wpc' \in {"loop", "exited"}
           /\ (~running /\ ~WorkerGone) => ~running'
         ]_vars
    /\ (~running /\ wpc \in {"sleep", "sleeping"}) ~> (wpc = "exited")

\* C15 witness: the worker left the interval sleep of a successful cycle
\* after one of its two steps and exited.
C15_Witness ==
    /\ wpc = "exited"
    /\ session = "closed"
    /\ fetch_interval = 2
    /\ slept = 1
    /\ sleepLeft = 1

\* C19: a stop() that waits for the worker returns.
C19_StopReturns ==
    (dpc = "join") ~> StopReturned

\* C19 witness: stop() returned after a worker that was in the cooldown.
C19_Witness ==
    StopReturned /\ wpc = "exited" /\ slept = Cooldown /\ session = "open"

\* Positions of the messages the loop has processed.
Done == {j \in Pos : log[emails[j]].done}

\* No relay or store call of the cycle failed, and no compose step.
NoCallFailed ==
    \A j \in Done :
        /\ log[emails[j]].send # "fail"
        /\ log[emails[j]].ack # "fail"
        /\ (\E r \in log[emails[j]].rules : ActionForwards(filters[r]))
              => log[emails[j]].send = "ok"

\* The cycle of three unseen messages of which only the second matches a
\* rule, a forward rule, with keep_unseen_count = 1.
ThreeMessageScenario ==
    /\ LoopOver
    /\ Len(emails) = 3
    /\ keep_unseen_count = 1
    /\ Unmatched = {1, 3}
    /\ \E r \in FirstMatching(inbox[emails[2]], filters) : ActionForwards(filters[r])

\* C16: the force-acknowledged messages are the earliest unmatched ones:
\* after an unmatched message that the policy left unseen, no unmatched
\* message of the cycle is force-acknowledged.  In the three-message
\* scenario the policy force-acknowledges #1 alone, the rule acts on #2
\* alone and #3 stays unseen; when no call fails #1 and #2 are marked seen
\* and #2 was sent.
C16_EarliestExcessForced ==
    /\ \A j \in Done : \A m \in Done :
          (/\ j < m
           /\ log[emails[j]].rules = {}
           /\ log[emails[m]].rules = {}
           /\ ~log[emails[j]].forced) => ~log[emails[m]].forced
    /\ ThreeMessageScenario =>
          /\ {j \in Pos : log[emails[j]].forced} = {1}
          /\ {j \in Pos : log[emails[j]].rules # {}} = {2}
          /\ {j \in Pos : log[emails[j]].send # "none"} \subseteq {2}
          /\ ~seen[emails[3]]
          /\ NoCallFailed =>
                (seen[emails[1]] /\ seen[emails[2]] /\ log[emails[2]].send = "ok")

\* C16 witness: the scenario, with every call succeeding.
C16_Witness ==
    ThreeMessageScenario /\ NoCallFailed /\ seen[emails[2]] /\ ~seen[emails[3]]

\* The matched messages processed so far whose action succeeded: sent by
\* the relay and marked seen.
ActionSucceeded ==
    {j \in Done : /\ log[emails[j]].rules # {}
                  /\ log[emails[j]].send = "ok"
                  /\ log[emails[j]].ack = "ok"}

\* C17: forwarded_so_far counts only the matched messages whose action
\* succeeded.
C17_FailedActionNotCounted ==
    wpc \in {"process", "close"} =>
        forward_acked_count = Cardinality(ActionSucceeded)

\* The ids in emails.
Fetched == {emails[j] : j \in Pos}

\* The ids that were unseen when this cycle searched the store: those
\* still unseen and those this cycle marked.
SearchFound == {i \in Ids : ~seen[i] \/ log[i].ack = "ok"}

\* C18: a message whose body fetch fails is skipped -- not processed, not
\* sent, not flagged -- and every other unseen message of the search is
\* fetched and processed in the same cycle: whether mail.fetch answers
\* with a result other than 'OK' or raises.
C18_FetchFailureSkipsOne ==
    /\ [](wpc \in {"process", "close"} =>
            \A i \in SearchFound \ Fetched :
                ~log[i].done /\ log[i].send = "none" /\ ~seen[i])
    /\ [](LoopOver => \A j \in Pos : log[emails[j]].done)
    /\ [][ (fetchErr = 0 /\ fetchErr' # 0) =>
              LET NotFailed(i) == i # fetchErr'
              IN  /\ emails' = SelectSeq(UnseenIds, NotFailed)
                  /\ emails' # << >> => wpc' = "process"
         ]_vars

\* C20: the relay is called only while the loop processes a message that
\* is unseen and that this cycle has not processed before; emails holds no
\* id twice; and a seen flag, once set, stays set -- so a message marked
\* seen is not sent in a later cycle.
C20_SendOnlyUnseenOncePerCycle ==
    /\ [](\A j \in Pos : \A m \in Pos : j # m => emails[j] # emails[m])
    /\ [](\A i \in Ids : log[i].send # "none" => i \in SearchFound \cap Fetched)
    /\ [][ /\ "relay" \in io' =>
                /\ wpc = "process"
                /\ idx \in Pos
                /\ ~seen[emails[idx]]
                /\ ~log[emails[idx]].done
                /\ log'[emails[idx]].send # "none"
                /\ \A i \in Ids \ {emails[idx]} : log'[i] = log[i]
           /\ \A i \in Ids : seen[i] => seen'[i]
         ]_vars

\* C20 witness: a cycle sends one message while another, which a forward
\* rule matches and an earlier cycle marked seen, is not among its messages.
C20_Witness ==
    \E i \in Ids : \E j \in Ids :
        /\ i # j
        /\ log[i].send # "none"
        /\ seen[j]
        /\ j \notin Fetched
        /\ \E r \in FirstMatching(inbox[j], filters) : ActionForwards(filters[r])

====
